---- MODULE Spec2Model ----
(***************************************************************************)
(* Model of docs/snippets/fractal_lfo.rs: the midpoint-displacement        *)
(* generator (FractalGenerator::generate, random_offset) and the streaming *)
(* oscillator (FractalLFO::new / set_params / next).                       *)
(*                                                                         *)
(* f32 values are modelled as records [k, v]: k = "fin" carries the value  *)
(* in fixed point (v / ONE), k = "inf" carries the sign in v, k = "nan".   *)
(* Every finite value the model produces is a dyadic rational with a few   *)
(* significant bits, so the f32 operations on it are exact and the fixed   *)
(* point arithmetic below computes what the hardware computes.             *)
(***************************************************************************)
EXTENDS Integers, Sequences, FiniteSets, TLC

\* Largest iteration count passed to FractalLFO::new.
MaxIter == 2

RECURSIVE Pow2(_)
Pow2(n) == IF n = 0 THEN 1 ELSE 2 * Pow2(n - 1)

\* Fixed-point unit: positions are multiples of 1/4, points of 2^-MaxIter.
ONE == 4 * Pow2(MaxIter)

\* Longest run of next() calls compared forward against backward, less one.
MaxCycle == 4

\* usize::MAX, the result of a saturating `as usize` cast of +Inf.
UsizeMax == Pow2(64) - 1

----------------------------------------------------------------------------
(* f32 values and the operations the program applies to them *)

Fin(n) == [k |-> "fin", v |-> n]
NaN == [k |-> "nan", v |-> 0]
Inf(s) == [k |-> "inf", v |-> s]

IsFin(a) == a.k = "fin"
Sign(n) == IF n > 0 THEN 1 ELSE IF n < 0 THEN -1 ELSE 0
Abs(n) == IF n < 0 THEN -n ELSE n

\* Quotient truncated toward zero (exact on every operand the model uses).
TruncDiv(a, b) == Sign(a) * Sign(b) * (Abs(a) \div Abs(b))

\* Fixed-point product of two finite values.
FxMul(a, b) == TruncDiv(a * b, ONE)

\* f32 `+`
FAdd(a, b) ==
    IF a.k = "nan" \/ b.k = "nan" THEN NaN
    ELSE IF a.k = "inf" /\ b.k = "inf" THEN (IF a.v = b.v THEN a ELSE NaN)
    ELSE IF a.k = "inf" THEN a
    ELSE IF b.k = "inf" THEN b
    ELSE Fin(a.v + b.v)

\* f32 unary `-`
FNeg(a) == IF a.k = "nan" THEN NaN ELSE [a EXCEPT !.v = -a.v]

\* f32 `-`
FSub(a, b) == FAdd(a, FNeg(b))

\* f32 `*`
FMul(a, b) ==
    IF a.k = "nan" \/ b.k = "nan" THEN NaN
    ELSE IF a.k = "inf" \/ b.k = "inf"
         THEN (IF a.v = 0 \/ b.v = 0 THEN NaN ELSE Inf(Sign(a.v) * Sign(b.v)))
    ELSE Fin(FxMul(a.v, b.v))

\* f32 `/` (the zero divisor is +0.0)
FDiv(a, b) ==
    IF a.k = "nan" \/ b.k = "nan" THEN NaN
    ELSE IF a.k = "inf" THEN (IF b.k = "inf" THEN NaN
                              ELSE Inf(a.v * (IF b.v < 0 THEN -1 ELSE 1)))
    ELSE IF b.k = "inf" THEN Fin(0)
    ELSE IF b.v = 0 THEN (IF a.v = 0 THEN NaN ELSE Inf(Sign(a.v)))
    ELSE Fin(TruncDiv(a.v * ONE, b.v))

\* f32 `%`: the remainder of the truncated division, signed like the dividend.
FRem(a, b) ==
    IF a.k = "nan" \/ b.k = "nan" THEN NaN
    ELSE IF a.k = "inf" THEN NaN
    ELSE IF b.k = "inf" THEN a
    ELSE IF b.v = 0 THEN NaN
    ELSE Fin(Sign(a.v) * (Abs(a.v) % Abs(b.v)))

\* f32::floor
FFloor(a) == IF IsFin(a) THEN Fin((a.v \div ONE) * ONE) ELSE a

\* `as usize` on an f32: truncates, saturates, and maps NaN to 0.
AsUsize(a) ==
    IF a.k = "nan" THEN 0
    ELSE IF a.k = "inf" THEN (IF a.v > 0 THEN UsizeMax ELSE 0)
    ELSE IF a.v < 0 THEN 0
    ELSE a.v \div ONE

\* `as f32` on a usize
AsF32(n) == Fin(n * ONE)

----------------------------------------------------------------------------
(* Inputs *)

\* rate arguments in Hz: backward, stopped, forward, and overshooting.
Rates == {AsF32(r) : r \in {-1000, -250, 0, 250, 1000, 3000}}

\* sample_rate arguments in Hz, the invalid ones included.
SampleRates == {AsF32(r) : r \in {-1000, 0, 1000}}

\* depth arguments.
Depths == {AsF32(1), AsF32(2)}

\* Values (sin(..) * 43758.5453).sin() takes in random_offset.
SineValues == {-ONE, -(ONE \div 2), ONE \div 2, ONE}

\* The amplitudes generate() passes to random_offset: 1.0, 0.5, ...
Amplitudes == {ONE \div Pow2(l) : l \in 0..(MaxIter - 1)}

VARIABLES
    pc,          \* "start" | "generate" | "live"
    args,        \* the arguments of the FractalLFO::new call in progress
    points,      \* generate(): the local `points`
    amplitude,   \* generate(): the local `amplitude`
    pass,        \* generate(): completed turns of the outer loop
    sine_hash,   \* random_offset: the sine hash of each scale
    lfo,         \* the FractalLFO
    call,        \* the last method that returned
    ret,         \* its return value
    retuned      \* set_params has been called on the oscillator

vars == <<pc, args, points, amplitude, pass, sine_hash, lfo, call, ret, retuned>>

----------------------------------------------------------------------------
(* FractalGenerator *)

\* random_offset(scale): a pure function of scale, |result| <= scale.
random_offset(scale) == FxMul(sine_hash[scale], scale)

\* clamp, were the generator to push midpoint + displacement as it is.
clamp_none(x, lo, hi) == x

\* f32::clamp
clamp(x, lo, hi) == IF x < lo THEN lo ELSE IF x > hi THEN hi ELSE x

\* The point pushed between window[0] and window[1].
Interior(left, right, amp) ==
    LET midpoint == TruncDiv(left + right, 2)
        displacement == random_offset(amp)
    IN  clamp(midpoint + displacement, -ONE, ONE)

\* Windows, were the interior point pushed before `left`.
RECURSIVE Windows_InteriorFirst(_, _, _)
Windows_InteriorFirst(pts, amp, i) ==
    IF i >= Len(pts) THEN <<>>
    ELSE <<Interior(pts[i], pts[i + 1], amp), pts[i]>>
         \o Windows_InteriorFirst(pts, amp, i + 1)

\* The inner loop over points.windows(2), from window i on.
RECURSIVE Windows(_, _, _)
Windows(pts, amp, i) ==
    IF i >= Len(pts) THEN <<>>
    ELSE <<pts[i], Interior(pts[i], pts[i + 1], amp)>> \o Windows(pts, amp, i + 1)

\* SubdividePass, were the final endpoint not pushed after the loop.
SubdividePass_NoLast(pts, amp) == Windows(pts, amp, 1)

\* One turn of the outer loop: the new value of `points`.
SubdividePass(pts, amp) == Append(Windows(pts, amp, 1), pts[Len(pts)])

----------------------------------------------------------------------------
(* FractalLFO *)

NoArgs == [rate |-> Fin(0), depth |-> Fin(0), sample_rate |-> Fin(0), iterations |-> 0]
NoLFO == [fractal_points |-> <<>>, position |-> Fin(0), step |-> Fin(0),
          depth |-> Fin(0), sample_rate |-> Fin(0)]
NoRet == Fin(0)

\* StepFor, were the ratio not scaled by the sequence length.
StepFor_NoLen(rate, sample_rate, len) == FDiv(rate, sample_rate)

\* rate / sample_rate * (fractal_points.len() as f32)
StepFor(rate, sample_rate, len) == FMul(FDiv(rate, sample_rate), AsF32(len))

\* The struct FractalLFO::new builds once generate() has returned.
FractalLFO_new(rate, depth, sample_rate, fractal_points) ==
    [fractal_points |-> fractal_points,
     position |-> Fin(0),
     step |-> StepFor(rate, sample_rate, Len(fractal_points)),
     depth |-> depth,
     sample_rate |-> sample_rate]

\* set_params, were it to restart playback.
FractalLFO_set_params_Reset(self, rate, depth) ==
    [self EXCEPT !.depth = depth,
                 !.position = Fin(0),
                 !.step = StepFor(rate, self.sample_rate, Len(self.fractal_points))]

\* FractalLFO::set_params
FractalLFO_set_params(self, rate, depth) ==
    [self EXCEPT !.depth = depth,
                 !.step = StepFor(rate, self.sample_rate, Len(self.fractal_points))]

\* next(): the index `integer`
IntegerIndex(self) ==
    AsUsize(FFloor(self.position)) % Len(self.fractal_points)

\* NextIndex, were the following index not wrapped.
NextIndex_NoWrap(self) == IntegerIndex(self) + 1

\* next(): the index `next_index`
NextIndex(self) == (IntegerIndex(self) + 1) % Len(self.fractal_points)

\* next(): `frac`
Frac(self) == FSub(self.position, FFloor(self.position))

\* next(): the returned value, interpolated * self.depth
NextValue(self) ==
    LET current == Fin(self.fractal_points[IntegerIndex(self) + 1])
        next == Fin(self.fractal_points[NextIndex(self) + 1])
        interpolated == FAdd(current, FMul(Frac(self), FSub(next, current)))
    IN  FMul(interpolated, self.depth)

\* next(): the new position
NextPosition(self) ==
    FRem(FAdd(self.position, self.step), AsF32(Len(self.fractal_points)))

\* FractalLFO::next: the oscillator after the call
FractalLFO_next(self) == [self EXCEPT !.position = NextPosition(self)]

----------------------------------------------------------------------------
(* The state machine *)

Init ==
    /\ pc = "start"
    /\ args = NoArgs
    /\ points = <<>>
    /\ amplitude = 0
    /\ pass = 0
    /\ sine_hash \in [Amplitudes -> SineValues]
    /\ lfo = NoLFO
    /\ call = "none"
    /\ ret = NoRet
    /\ retuned = FALSE

\* FractalLFO::new is entered; generate() initialises its locals.
NewEnter ==
    /\ pc = "start"
    /\ \E rate \in Rates, depth \in Depths, sample_rate \in SampleRates,
          iterations \in 0..MaxIter :
          args' = [rate |-> rate, depth |-> depth, sample_rate |-> sample_rate,
                   iterations |-> iterations]
    /\ points' = <<-ONE, ONE>>
    /\ amplitude' = ONE
    /\ pass' = 0
    /\ pc' = "generate"
    /\ UNCHANGED <<sine_hash, lfo, call, ret, retuned>>

\* One turn of `for _ in 0..self.iterations`.
GeneratePass ==
    /\ pc = "generate"
    /\ pass < args.iterations
    /\ points' = SubdividePass(points, amplitude)
    /\ amplitude' = TruncDiv(amplitude, 2)
    /\ pass' = pass + 1
    /\ UNCHANGED <<pc, args, sine_hash, lfo, call, ret, retuned>>

\* generate() returns `points`; new computes step and returns the struct.
NewReturn ==
    /\ pc = "generate"
    /\ pass = args.iterations
    /\ lfo' = FractalLFO_new(args.rate, args.depth, args.sample_rate, points)
    /\ pc' = "live"
    /\ call' = "new"
    /\ ret' = NoRet
    /\ args' = NoArgs
    /\ UNCHANGED <<points, amplitude, pass, sine_hash, retuned>>

SetParams ==
    /\ pc = "live"
    /\ \E rate \in Rates, depth \in Depths : lfo' = FractalLFO_set_params(lfo, rate, depth)
    /\ call' = "set_params"
    /\ ret' = NoRet
    /\ retuned' = TRUE
    /\ UNCHANGED <<pc, args, points, amplitude, pass, sine_hash>>

NextSample ==
    /\ pc = "live"
    /\ ret' = NextValue(lfo)
    /\ lfo' = FractalLFO_next(lfo)
    /\ call' = "next"
    /\ UNCHANGED <<pc, args, points, amplitude, pass, sine_hash, retuned>>

Next == NewEnter \/ GeneratePass \/ NewReturn \/ SetParams \/ NextSample

Spec == Init /\ [][Next]_vars

----------------------------------------------------------------------------
(* Properties *)

\* The oscillator exists and was built with a sample rate the contract allows.
Valid == pc = "live" /\ IsFin(lfo.sample_rate) /\ lfo.sample_rate.v > 0

SeqLen == Len(lfo.fractal_points)

\* C1: set_params never moves playback: position is the same immediately
\* before and after every set_params call, and so are the fractal sequence
\* and sample_rate; only depth and step may change.
C1_SetParamsKeepsPosition ==
    [][call' = "set_params" =>
          /\ lfo'.position = lfo.position
          /\ lfo'.fractal_points = lfo.fractal_points
          /\ lfo'.sample_rate = lfo.sample_rate]_vars

\* C1 witness: set_params has returned mid-stream, away from position 0,
\* with a step different from the stopped one.
C1_Witness ==
    /\ Valid /\ call = "set_params"
    /\ lfo.position # Fin(0) /\ lfo.step # Fin(0)

\* C2: after any sequence of new, set_params and next calls on a validly
\* built oscillator, position is finite and 0 <= position < sequence length.
C2_PositionInRange ==
    Valid => /\ IsFin(lfo.position)
             /\ 0 <= lfo.position.v
             /\ lfo.position.v < SeqLen * ONE

\* C3: new with sample_rate <= 0 fails at construction: no live oscillator
\* has a non-positive sample rate, or a step that is NaN or infinite.
C3_InvalidSampleRateRejected ==
    pc = "live" => /\ IsFin(lfo.sample_rate) /\ lfo.sample_rate.v > 0
                   /\ IsFin(lfo.step)

\* C4: generate starts with 2 points and has 2^k + 1 points after k passes,
\* so the sequence new stores has length 2^iterations + 1.
C4_Length ==
    /\ pc = "generate" => /\ pass <= args.iterations
                          /\ Len(points) = Pow2(pass) + 1
    /\ pc = "live" => /\ Len(points) = Pow2(pass) + 1
                      /\ lfo.fractal_points = points

\* C4 witness: an oscillator built with the largest iteration count.
C4_Witness == pc = "live" /\ pass = MaxIter /\ SeqLen = Pow2(MaxIter) + 1

\* C5: the first point is -1.0 and the last 1.0 after every pass and in the
\* final sequence, and a pass leaves every earlier point k unchanged at the
\* even (0-based) index 2k.
EndpointsKept(pts) == pts[1] = -ONE /\ pts[Len(pts)] = ONE
C5_EndpointsPreserved ==
    /\ [](/\ pc = "generate" => EndpointsKept(points)
          /\ pc = "live" => EndpointsKept(lfo.fractal_points))
    /\ [][pass' = pass + 1 =>
             \A k \in 1..Len(points) : points'[2 * k - 1] = points[k]]_vars

\* C5 witness: two passes are done and an earlier interior point, displaced
\* off the midpoint, sits at its doubled index.
C5_Witness ==
    /\ pc = "live" /\ pass >= 2
    /\ lfo.fractal_points[(SeqLen + 1) \div 2] # 0

\* C6: every point is within [-1.0, 1.0] after every pass and in the final
\* sequence, whatever random_offset returned.
InUnitRange(pts) == \A i \in 1..Len(pts) : -ONE <= pts[i] /\ pts[i] <= ONE
C6_PointsBounded ==
    /\ pc = "generate" => InUnitRange(points)
    /\ pc = "live" => InUnitRange(lfo.fractal_points)

\* C6 witness: a pass has just produced an interior point whose
\* midpoint + displacement lay outside [-1.0, 1.0] before the clamp.
C6_Witness ==
    /\ pc = "generate" /\ pass > 0
    /\ \E k \in 1..((Len(points) - 1) \div 2) :
          Abs(TruncDiv(points[2 * k - 1] + points[2 * k + 1], 2)
              + random_offset(2 * amplitude)) > ONE

\* The outputs of n successive next() calls on the oscillator `self`.
RECURSIVE Outputs(_, _)
Outputs(self, n) ==
    IF n = 0 THEN <<>>
    ELSE <<NextValue(self)>> \o Outputs(FractalLFO_next(self), n - 1)

Reverse(s) == [i \in 1..Len(s) |-> s[Len(s) + 1 - i]]

\* C7: a negative rate plays the sequence backward: with step < 0 a next()
\* call moves position down by |step| circularly (modulo the sequence
\* length), and over a run that ends where it began (k steps covering whole
\* cycles, k + 1 samples) the outputs at rate -r are the outputs at rate +r
\* in reverse order.
C7_ReverseMirrors ==
    /\ [](Valid =>
            \A r \in Rates : \A k \in 1..MaxCycle :
               LET fwd == FractalLFO_new(r, lfo.depth, lfo.sample_rate,
                                         lfo.fractal_points)
                   bwd == FractalLFO_new(FNeg(r), lfo.depth, lfo.sample_rate,
                                         lfo.fractal_points)
               IN  (r.v > 0 /\ (k * fwd.step.v) % (SeqLen * ONE) = 0)
                   => Outputs(bwd, k + 1) = Reverse(Outputs(fwd, k + 1)))
    /\ [][(Valid /\ call' = "next" /\ IsFin(lfo.step) /\ lfo.step.v < 0)
             => lfo'.position =
                   Fin((lfo.position.v + lfo.step.v) % (SeqLen * ONE))]_vars

\* The arguments of the degenerate full-cycle-per-sample construction.
DegenerateArgs ==
    [rate |-> AsF32(1000), depth |-> AsF32(1), sample_rate |-> AsF32(1000),
     iterations |-> 0]

\* C8: new(1000.0, 1.0, 1000.0, 0) yields step 2.0; as long as only next()
\* is called on that oscillator, position is 0.0 after every call and every
\* call returns sequence[0] * depth = -1.0.
C8_DegenerateCycle ==
    /\ (pc = "generate" /\ args = DegenerateArgs /\ pass = args.iterations)
          => FractalLFO_new(args.rate, args.depth, args.sample_rate,
                            points).step = AsF32(2)
    /\ (/\ pc = "live" /\ ~retuned /\ pass = 0
        /\ lfo.sample_rate = AsF32(1000) /\ lfo.depth = AsF32(1)
        /\ lfo.step = AsF32(2))
          => /\ lfo.position = Fin(0)
             /\ call = "next" => ret = AsF32(-1)

\* C8 witness: the degenerate oscillator has produced a sample.
C8_Witness ==
    /\ pc = "live" /\ ~retuned /\ pass = 0 /\ call = "next"
    /\ lfo.sample_rate = AsF32(1000) /\ lfo.depth = AsF32(1)
    /\ lfo.step = AsF32(2) /\ ret = AsF32(-1)

\* C9: on a validly built oscillator the sequence is never empty and both
\* indices next() reads are within 0 .. length - 1, whatever the rate.
C9_IndicesInRange ==
    Valid => /\ SeqLen > 0
             /\ IntegerIndex(lfo) \in 0..(SeqLen - 1)
             /\ NextIndex(lfo) \in 0..(SeqLen - 1)

\* C9 witness: after a next() call with a step beyond the sequence length,
\* the integer index is the last one, so the following index wraps to 0.
C9_Witness ==
    /\ Valid /\ call = "next" /\ IsFin(lfo.step)
    /\ lfo.step.v > SeqLen * ONE
    /\ IntegerIndex(lfo) = SeqLen - 1 /\ NextIndex(lfo) = 0

\* (s[i] + frac * (s[j] - s[i])) * depth at position p, with
\* i = floor(p) mod length, frac = p - floor(p), j = (i + 1) mod length.
InterpolatedAt(pts, p, depth) ==
    LET len == Len(pts)
        i == (p \div ONE) % len
        j == (i + 1) % len
        frac == p - (p \div ONE) * ONE
    IN  FxMul(pts[i + 1] + FxMul(frac, pts[j + 1] - pts[i + 1]), depth)

\* C10: next() returns, for the position held before the call,
\* (s[i] + frac * (s[j] - s[i])) * depth with i = floor(position) mod length
\* and j = (i + 1) mod length; and at a fixed position doubling depth
\* doubles the returned value.
C10_InterpolatedValue ==
    /\ [][(Valid /\ call' = "next")
             => ret' = Fin(InterpolatedAt(lfo.fractal_points, lfo.position.v,
                                          lfo.depth.v))]_vars
    /\ [](Valid =>
            NextValue([lfo EXCEPT !.depth = FAdd(lfo.depth, lfo.depth)])
               = FAdd(NextValue(lfo), NextValue(lfo)))

====
